---- MODULE Spec2Model ----
(***************************************************************************)
(* oralVI-server: the authentication / role middleware chain and the       *)
(* submission lifecycle (upload -> annotated -> reported) of the patient   *)
(* and admin routers, as a state machine over the record store (db), the   *)
(* artifact store (store) and the requests in flight (req).                *)
(* Every await of a handler is a step of its own; the record store's       *)
(* lookups are taken to answer, while the artifact store, the image fetch  *)
(* and the record store's save may fail.                                   *)
(***************************************************************************)
EXTENDS Integers, Sequences, FiniteSets, TLC

\* ------------------------------------------------------------------ bounds
MaxSubs == 2        \* submissions the record store may hold
MaxUploads == 3     \* artifacts the artifact store may hold
MaxOverlapUploads == 4   \* the same while requests overlap

\* request slots; only the first is used unless requests may overlap
Slots == {"r1", "r2"}
FirstSlot == "r1"

\* ------------------------------------------------------------------ users
Patients == {"p1", "p2"}
Admins == {"a1"}
Users == Patients \cup Admins
NoUser == "nobody"

\* models/User.js: role is one of patient, admin
Role(u) == IF u \in Admins THEN "admin" ELSE "patient"

\* ------------------------------------------------------------------ tokens
NoToken == ""
\* tokens signed with JWT_SECRET and the subject id each one carries;
\* tok_ghost is validly signed for a subject that is no User, tok_old is
\* signed for p1 and past its expiry; tok_bad carries no valid signature
Subject == [tok_p1 |-> "p1", tok_p2 |-> "p2", tok_a1 |-> "a1", tok_ghost |-> "ghost",
            tok_old |-> "p1"]
SignedTokens == DOMAIN Subject
ExpiredTokens == {"tok_old"}
Tokens == SignedTokens \cup {"tok_bad"}

NoHeader == [scheme |-> "", token |-> NoToken]
Headers == {NoHeader, [scheme |-> "Basic", token |-> "tok_p1"]}
           \cup {[scheme |-> "Bearer", token |-> t] : t \in Tokens}
Cookies == {NoToken} \cup Tokens
Bearer(t) == [scheme |-> "Bearer", token |-> t]

\* the cookie and the authorization header a request carries: every token as
\* the cookie or as the header alone, and both together with tokens that differ
Credentials ==
    {[cookie |-> c, header |-> NoHeader] : c \in Cookies}
    \cup {[cookie |-> NoToken, header |-> h] : h \in Headers}
    \cup {[cookie |-> "tok_p1", header |-> Bearer("tok_a1")],
          [cookie |-> "tok_a1", header |-> Bearer("tok_p1")],
          [cookie |-> "tok_p2", header |-> Bearer("tok_bad")],
          [cookie |-> "tok_bad", header |-> Bearer("tok_p2")],
          [cookie |-> "tok_ghost", header |-> Bearer("tok_a1")],
          [cookie |-> "tok_p1", header |-> Bearer("tok_p1")]}

\* faulty variant of VerifyOk: the expiry is not looked at
VerifySignatureOnly(tok) == tok \in SignedTokens

\* jwt.verify(token, secret): the decoded subject id, or a throw when the
\* signature is wrong or the token is expired
VerifyOk(tok) == tok \in SignedTokens /\ tok \notin ExpiredTokens
DecodedId(tok) == Subject[tok]

\* User.findById(id): the user, or null
FindUser(id) == IF id \in Users THEN id ELSE NoUser

\* faulty variant of ExtractToken: the authorization header is looked at first
ExtractTokenHeaderFirst(cookie, header) ==
    IF header # NoHeader /\ header.scheme = "Bearer" THEN header.token
    ELSE cookie

\* auth.js: cookie first, else the token of a Bearer authorization header
ExtractToken(cookie, header) ==
    IF cookie # NoToken THEN cookie
    ELSE IF header # NoHeader /\ header.scheme = "Bearer" THEN header.token
    ELSE NoToken

\* auth.js, second variant: cookie first, else the second word of the
\* authorization header, whatever its scheme
ExtractTokenV2(cookie, header) ==
    IF cookie # NoToken THEN cookie
    ELSE header.token

\* ------------------------------------------------------------- operations
\* p_upload_v2 and p_report_stream are the second variants of POST /upload and
\* POST /generate-report/:id in routes/patient.js
PatientOps == {"p_upload", "p_list", "p_get", "p_save_annotated", "p_report",
               "p_upload_v2", "p_report_stream"}
AdminOps == {"a_list", "a_get", "a_annotate", "a_pdf"}
Ops == PatientOps \cup AdminOps

\* the routers the app mounts, and the routes of each
Routers == {"patient", "admin"}
RouterOps(router) == IF router = "admin" THEN AdminOps ELSE PatientOps

\* the roles each route passes to authorizeRoles
RouteRoles(op) == IF op \in AdminOps THEN {"admin"} ELSE {"patient"}

\* every route of a router passes the same roles
RouterRoles(router) == UNION {RouteRoles(op) : op \in RouterOps(router)}

\* ------------------------------------------------------------ submissions
NoUrl == 0
NoJson == ""
Statuses == {"uploaded", "annotated", "reported"}

\* request bodies of POST /upload: file is "image", "text" (another mimetype)
\* or "none"
ValidEmails == {"jane@x.com", "raj@x.org"}
NoForm == [name |-> "", patientId |-> "", email |-> "", note |-> "", file |-> "none"]
FormJane == [name |-> "Jane Doe", patientId |-> "P-100", email |-> "jane@x.com",
             note |-> "", file |-> "image"]
FormRaj == [name |-> "Raj", patientId |-> "P-200", email |-> "raj@x.org",
            note |-> "left molar", file |-> "image"]
Forms == {FormJane, FormRaj,
          [FormJane EXCEPT !.name = ""],
          [FormJane EXCEPT !.patientId = ""],
          [FormJane EXCEPT !.email = "jane-at-x"],
          [FormJane EXCEPT !.file = "none"],
          [FormJane EXCEPT !.file = "text"]}

\* express-validator: notEmpty() and isEmail()
NotEmpty(s) == s # ""
IsEmail(s) == s \in ValidEmails

\* annotated-image payloads and annotation payloads ("" when missing)
Images == {"", "imgA", "imgB"}
Jsons == {"", "boxes"}

\* faulty variant of NewSubmission: the note is not taken from the body
NewSubmissionNoNote(id, owner, form, url) ==
    [id |-> id, patient |-> owner, name |-> form.name, patientId |-> form.patientId,
     email |-> form.email, note |-> "", imageUrl |-> url,
     annotationJson |-> NoJson, annotatedImageUrl |-> NoUrl, reportUrl |-> NoUrl,
     status |-> "uploaded"]

\* models/Submission.js: a new document; status defaults to uploaded
NewSubmission(id, owner, form, url) ==
    [id |-> id, patient |-> owner, name |-> form.name, patientId |-> form.patientId,
     email |-> form.email, note |-> form.note, imageUrl |-> url,
     annotationJson |-> NoJson, annotatedImageUrl |-> NoUrl, reportUrl |-> NoUrl,
     status |-> "uploaded"]

NoDoc == NewSubmission(0, NoUser, NoForm, NoUrl)

\* --------------------------------------------------------------- requests
NoReq == [pc |-> "idle", router |-> "none", op |-> "none",
          cookie |-> NoToken, header |-> NoHeader, token |-> NoToken, user |-> NoUser,
          id |-> 0, form |-> NoForm, img |-> "", json |-> "",
          doc |-> NoDoc, url |-> NoUrl, err |-> "", resp |-> << >>, out |-> << >>]

VARIABLES
    db,       \* record store: the sequence of Submission documents, _id = index
    store,    \* artifact store: the sequence of artifacts, URL = index
    req,      \* the request handled in each slot
    overlap   \* whether a request may begin while another is in flight

vars == <<db, store, req, overlap>>

\* the artifact store takes uploads up to its bound
StoreBound == IF overlap THEN MaxOverlapUploads ELSE MaxUploads

\* the error a failed call throws, or hands to its callback
Failed(q, what) == [q EXCEPT !.err = what]

\* faulty variant of Respond: after an error response the handler goes on
\* from where it was
RespondAndGoOn(q, code, message) ==
    IF code = 500
    THEN [q EXCEPT !.resp = Append(@, [code |-> code, message |-> message])]
    ELSE [q EXCEPT !.pc = "done",
                   !.resp = Append(@, [code |-> code, message |-> message])]

\* res.status(code).json({message}): one more response on the request
Respond(q, code, message) ==
    [q EXCEPT !.pc = "done", !.resp = Append(@, [code |-> code, message |-> message])]

Exists(id) == id \in 1..Len(db)

\* Submission.findById(id)
FindById(id) == IF Exists(id) THEN db[id] ELSE NoDoc

\* faulty variant of FindOne: the patient filter left out
FindOneAnyOwner(id, owner) == FindById(id)

\* Submission.findOne({_id: id, patient: owner})
FindOne(id, owner) ==
    IF Exists(id) /\ db[id].patient = owner THEN db[id] ELSE NoDoc

\* faulty variant of AdminFind: the patient router's owner-scoped lookup
AdminFindScoped(id, user) == FindOne(id, user)

\* the admin router's lookups: Submission.findById(req.params.id), whoever asks
AdminFind(id, user) == FindById(id)

\* Submission.find(filter).sort({createdAt: -1}): newest first
RECURSIVE FindSorted(_, _)
FindSorted(n, owners) ==
    IF n = 0 THEN << >>
    ELSE IF db[n].patient \in owners THEN <<db[n]>> \o FindSorted(n - 1, owners)
    ELSE FindSorted(n - 1, owners)

\* faulty variant of SaveModified: the write is dropped when the persisted
\* document is no longer the one that was loaded
SaveIfUnchanged(loaded, cur) ==
    IF db[loaded.id] = loaded THEN [db EXCEPT ![loaded.id] = cur] ELSE db

\* document.save() of a loaded document: the paths whose value was changed
\* since the load are written over the persisted document
SaveModified(loaded, cur) ==
    LET old == db[loaded.id] IN
    [db EXCEPT ![loaded.id] =
        [id |-> old.id,
         patient |-> IF cur.patient # loaded.patient THEN cur.patient ELSE old.patient,
         name |-> IF cur.name # loaded.name THEN cur.name ELSE old.name,
         patientId |-> IF cur.patientId # loaded.patientId THEN cur.patientId ELSE old.patientId,
         email |-> IF cur.email # loaded.email THEN cur.email ELSE old.email,
         note |-> IF cur.note # loaded.note THEN cur.note ELSE old.note,
         imageUrl |-> IF cur.imageUrl # loaded.imageUrl THEN cur.imageUrl ELSE old.imageUrl,
         annotationJson |-> IF cur.annotationJson # loaded.annotationJson
                            THEN cur.annotationJson ELSE old.annotationJson,
         annotatedImageUrl |-> IF cur.annotatedImageUrl # loaded.annotatedImageUrl
                               THEN cur.annotatedImageUrl ELSE old.annotatedImageUrl,
         reportUrl |-> IF cur.reportUrl # loaded.reportUrl THEN cur.reportUrl ELSE old.reportUrl,
         status |-> IF cur.status # loaded.status THEN cur.status ELSE old.status]]

Init ==
    /\ db = << >>
    /\ store = << >>
    /\ req = [r \in Slots |-> NoReq]
    /\ overlap = FALSE

\* a request arrives at a route of one of the routers; which route it is
\* matters from the handler on, every route of a router having the same first
\* two middlewares
Begin(r) ==
    /\ req[r].pc = "idle"
    /\ IF overlap THEN TRUE
       ELSE r = FirstSlot
    /\ \E router \in Routers :
          req' = [req EXCEPT ![r] = [NoReq EXCEPT !.pc = "auth", !.router = router]]
    /\ UNCHANGED <<db, store, overlap>>

\* the connection of an answered or abandoned request closes; its slot is free
Close(r) ==
    /\ req[r].pc \in {"done", "hung"}
    /\ req' = [req EXCEPT ![r] = NoReq]
    /\ UNCHANGED <<db, store, overlap>>

\* the request as the handler of route op takes it up: of the request it reads
\* req.user, and the params, body and file it picks up as it runs
Routed(r, op) == req[r].pc = "handler" /\ op \in RouterOps(req[r].router)
Handled(q, op) ==
    [q EXCEPT !.op = op, !.cookie = NoToken, !.header = NoHeader, !.token = NoToken]

\* faulty variant of Authenticate: a request without a token is handed on
AuthenticatePassAnonymous(q, token) ==
    IF token = NoToken THEN [q EXCEPT !.pc = "role"]
    ELSE IF ~VerifyOk(token)
    THEN Respond(q, 401, "Token is invalid or expired.")
    ELSE IF FindUser(DecodedId(token)) = NoUser
    THEN Respond(q, 401, "User not found. Invalid token.")
    ELSE [q EXCEPT !.user = FindUser(DecodedId(token)), !.pc = "role"]

\* authenticateToken after the token is read: 401 without a token, 401 when
\* jwt.verify throws, 401 when the subject is no User, else req.user and next()
Authenticate(q, token) ==
    IF token = NoToken
    THEN Respond(q, 401, "Access denied. No token provided.")
    ELSE IF ~VerifyOk(token)
    THEN Respond(q, 401, "Token is invalid or expired.")
    ELSE IF FindUser(DecodedId(token)) = NoUser
    THEN Respond(q, 401, "User not found. Invalid token.")
    ELSE [q EXCEPT !.user = FindUser(DecodedId(token)), !.pc = "role"]

\* authenticateToken, second variant, after the token is read: one catch
\* around jwt.verify and the lookup, one message for every failure
AuthenticateV2(q, token) ==
    IF token = NoToken
    THEN Respond(q, 401, "Access denied. No token provided.")
    ELSE IF ~VerifyOk(token)
    THEN Respond(q, 401, "Invalid token.")
    ELSE IF FindUser(DecodedId(token)) = NoUser
    THEN Respond(q, 401, "Invalid token.")
    ELSE [q EXCEPT !.user = FindUser(DecodedId(token)), !.pc = "role"]

\* the request as authenticateToken has read it: cookie, authorization header
\* and the token taken from them
Presented(q, cr, token) ==
    [q EXCEPT !.cookie = cr.cookie, !.header = cr.header, !.token = token]

\* middleware/auth.js authenticateToken, on the cookie and the authorization
\* header the request carries
AuthenticateToken(r) ==
    /\ req[r].pc = "auth"
    /\ \E cr \in Credentials :
          LET token == ExtractToken(cr.cookie, cr.header) IN
          req' = [req EXCEPT ![r] = Authenticate(Presented(req[r], cr, token), token)]
    /\ UNCHANGED <<db, store, overlap>>

\* middleware/auth.js authenticateToken, second variant
AuthenticateToken2(r) ==
    /\ req[r].pc = "auth"
    /\ \E cr \in Credentials :
          LET token == ExtractTokenV2(cr.cookie, cr.header) IN
          req' = [req EXCEPT ![r] = AuthenticateV2(Presented(req[r], cr, token), token)]
    /\ UNCHANGED <<db, store, overlap>>

\* faulty variant of RoleGate: the role is not compared
RoleGateNoCheck(q) ==
    IF q.user = NoUser
    THEN Respond(q, 401, "Authentication required.")
    ELSE [q EXCEPT !.pc = "handler"]

\* the function authorizeRoles(...roles) returns, on the route's roles
RoleGate(q) ==
    IF q.user = NoUser
    THEN Respond(q, 401, "Authentication required.")
    ELSE IF Role(q.user) \notin RouterRoles(q.router)
    THEN Respond(q, 403, "Access denied. Insufficient permissions.")
    ELSE [q EXCEPT !.pc = "handler"]

\* next() of the last middleware: what follows reads req.user, req.params,
\* req.body and req.file, and no longer the cookie or the authorization header
Admitted(q) ==
    IF q.pc = "handler"
    THEN [q EXCEPT !.cookie = NoToken, !.header = NoHeader, !.token = NoToken]
    ELSE q

\* middleware/auth.js authorizeRoles as the second middleware of every route
AuthorizeRoles(r) ==
    /\ req[r].pc = "role"
    /\ req' = [req EXCEPT ![r] = Admitted(RoleGate(req[r]))]
    /\ UNCHANGED <<db, store, overlap>>

\* faulty variant of Uploaded: nothing is stored
UploadedNothing(folder, payload) == store

\* cloudinary.uploader.upload / upload_stream: the artifact is stored and its
\* URL returned
Uploaded(folder, payload) == Append(store, [folder |-> folder, payload |-> payload])

\* ---------------------------------------------------------- patient router
\* POST /upload: upload.single('image') (multer; a file that is no image goes
\* to the app's error middleware, 500), the validators, then the handler up to
\* its first await
PUpload(r) ==
    LET q == Handled(req[r], "p_upload") IN
    /\ Routed(r, "p_upload")
    /\ \E f \in Forms :
          LET g == [q EXCEPT !.form = f] IN
          req' = [req EXCEPT ![r] =
             IF f.file = "text"
             THEN Respond(g, 500, "Something went wrong!")
             ELSE IF ~NotEmpty(f.name) \/ ~NotEmpty(f.patientId) \/ ~IsEmail(f.email)
             THEN Respond(g, 400, "errors")
             ELSE IF f.file = "none"
             THEN Respond(g, 400, "Image file is required")
             ELSE [g EXCEPT !.pc = "upload"]]
    /\ UNCHANGED <<db, store, overlap>>

PUploadStore(r) ==
    LET q == req[r] IN
    /\ q.pc = "upload" /\ q.op = "p_upload"
    /\ \/ /\ Len(store) < StoreBound
          /\ store' = Uploaded("oralvis/submissions", q.form.file)
          /\ req' = [req EXCEPT ![r] = [q EXCEPT !.url = Len(store'), !.pc = "save"]]
       \/ /\ req' = [req EXCEPT ![r] = Respond(Failed(q, "upload"), 500, "Server error")]
          /\ UNCHANGED store
    /\ UNCHANGED <<db, overlap>>

PUploadSave(r) ==
    LET q == req[r]
        created == NewSubmission(Len(db) + 1, q.user, q.form, q.url) IN
    /\ q.pc = "save" /\ q.op = "p_upload"
    /\ \/ /\ Len(db) < MaxSubs
          /\ db' = Append(db, created)
          /\ req' = [req EXCEPT ![r] =
                Respond([q EXCEPT !.doc = created, !.id = created.id, !.out = <<created>>],
                        201, "Submission uploaded successfully")]
       \/ /\ req' = [req EXCEPT ![r] = Respond(Failed(q, "save"), 500, "Server error")]
          /\ UNCHANGED db
    /\ UNCHANGED <<store, overlap>>

\* GET /submissions
PList(r) ==
    LET q == Handled(req[r], "p_list") IN
    /\ Routed(r, "p_list")
    /\ req' = [req EXCEPT ![r] =
          Respond([q EXCEPT !.out = FindSorted(Len(db), {q.user})], 200, "")]
    /\ UNCHANGED <<db, store, overlap>>

\* GET /submissions/:id
PGet(r) ==
    LET q == Handled(req[r], "p_get") IN
    /\ Routed(r, "p_get")
    /\ \E id \in 1..MaxSubs :
          LET g == [q EXCEPT !.id = id]
              submission == FindOne(id, q.user) IN
          req' = [req EXCEPT ![r] =
             IF submission = NoDoc
             THEN Respond(g, 404, "Submission not found")
             ELSE Respond([g EXCEPT !.doc = submission, !.out = <<submission>>], 200, "")]
    /\ UNCHANGED <<db, store, overlap>>

\* POST /save-annotated/:id
PSaveAnnotated(r) ==
    LET q == Handled(req[r], "p_save_annotated") IN
    /\ Routed(r, "p_save_annotated")
    /\ \E id \in 1..MaxSubs, img \in Images :
          LET g == [q EXCEPT !.id = id, !.img = img]
              submission == FindOne(id, q.user) IN
          req' = [req EXCEPT ![r] =
             IF img = ""
             THEN Respond(g, 400, "Annotated image data is required")
             ELSE IF submission = NoDoc
             THEN Respond(g, 404, "Submission not found")
             ELSE [g EXCEPT !.doc = submission, !.pc = "upload"]]
    /\ UNCHANGED <<db, store, overlap>>

PSaveAnnotatedStore(r) ==
    LET q == req[r] IN
    /\ q.pc = "upload" /\ q.op = "p_save_annotated"
    /\ \/ /\ Len(store) < StoreBound
          /\ store' = Uploaded("oralvis/annotated", q.img)
          /\ req' = [req EXCEPT ![r] = [q EXCEPT !.url = Len(store'), !.pc = "save"]]
       \/ /\ req' = [req EXCEPT ![r] = Respond(Failed(q, "upload"), 500, "Server error")]
          /\ UNCHANGED store
    /\ UNCHANGED <<db, overlap>>

\* faulty variant of SaveAnnotatedAssign: an annotated image already set is kept
SaveAnnotatedKeepFirst(doc, url) ==
    IF doc.annotatedImageUrl # NoUrl THEN doc
    ELSE [doc EXCEPT !.annotatedImageUrl = url, !.status = "annotated"]

\* faulty variant of SaveAnnotatedAssign: the uploaded image's URL is not stored
SaveAnnotatedStatusOnly(doc, url) == [doc EXCEPT !.status = "annotated"]

\* submission.annotatedImageUrl = ...; submission.status = 'annotated'
SaveAnnotatedAssign(doc, url) ==
    [doc EXCEPT !.annotatedImageUrl = url, !.status = "annotated"]

PSaveAnnotatedSave(r) ==
    LET q == req[r]
        cur == SaveAnnotatedAssign(q.doc, q.url) IN
    /\ q.pc = "save" /\ q.op = "p_save_annotated"
    /\ \/ /\ db' = SaveModified(q.doc, cur)
          /\ req' = [req EXCEPT ![r] =
                Respond(q, 200, "Annotated image saved successfully")]
       \/ /\ req' = [req EXCEPT ![r] = Respond(Failed(q, "save"), 500, "Server error")]
          /\ UNCHANGED db
    /\ UNCHANGED <<store, overlap>>

\* POST /generate-report/:id up to doc.end(); the 'end' listener runs later
PReport(r) ==
    LET q == Handled(req[r], "p_report") IN
    /\ Routed(r, "p_report")
    /\ \E id \in 1..MaxSubs :
          LET g == [q EXCEPT !.id = id]
              submission == FindOne(id, q.user) IN
          req' = [req EXCEPT ![r] =
             IF submission = NoDoc
             THEN Respond(g, 404, "Submission not found")
             ELSE [g EXCEPT !.doc = submission, !.pc = "upload"]]
    /\ UNCHANGED <<db, store, overlap>>

\* the async 'end' listener: a rejected await is caught by nobody, so the
\* request is left without a response
PReportStore(r) ==
    LET q == req[r] IN
    /\ q.pc = "upload" /\ q.op = "p_report"
    /\ \/ /\ Len(store) < StoreBound
          /\ store' = Uploaded("oralvis/reports", "pdf")
          /\ req' = [req EXCEPT ![r] = [q EXCEPT !.url = Len(store'), !.pc = "save"]]
       \/ /\ req' = [req EXCEPT ![r] = [Failed(q, "upload") EXCEPT !.pc = "hung"]]
          /\ UNCHANGED store
    /\ UNCHANGED <<db, overlap>>

\* faulty variant of ReportAssign: only an annotated submission becomes reported
ReportAssignFromAnnotated(doc, url) ==
    IF doc.status = "annotated"
    THEN [doc EXCEPT !.reportUrl = url, !.status = "reported"]
    ELSE [doc EXCEPT !.reportUrl = url]

\* faulty variant of ReportAssign: the note as printed in the PDF is stored
ReportAssignStoresNote(doc, url) ==
    [doc EXCEPT !.reportUrl = url, !.status = "reported",
                !.note = IF @ = "" THEN "N/A" ELSE @]

\* submission.reportUrl = ...; submission.status = 'reported'
ReportAssign(doc, url) ==
    [doc EXCEPT !.reportUrl = url, !.status = "reported"]

PReportSave(r) ==
    LET q == req[r]
        cur == ReportAssign(q.doc, q.url) IN
    /\ q.pc = "save" /\ q.op = "p_report"
    /\ \/ /\ db' = SaveModified(q.doc, cur)
          /\ req' = [req EXCEPT ![r] =
                Respond(q, 200, "Report generated successfully")]
       \/ /\ req' = [req EXCEPT ![r] = [Failed(q, "save") EXCEPT !.pc = "hung"]]
          /\ UNCHANGED db
    /\ UNCHANGED <<store, overlap>>

\* POST /upload, second variant: upload.single('image'), then the handler's own
\* checks of the body (name, patientId and email must be non-empty) and the file
PUploadV2(r) ==
    LET q == Handled(req[r], "p_upload_v2") IN
    /\ Routed(r, "p_upload_v2")
    /\ \E f \in Forms :
          LET g == [q EXCEPT !.form = f] IN
          req' = [req EXCEPT ![r] =
             IF f.file = "text"
             THEN Respond(g, 500, "Something went wrong!")
             ELSE IF ~NotEmpty(f.name) \/ ~NotEmpty(f.patientId) \/ ~NotEmpty(f.email)
             THEN Respond(g, 400, "Missing required fields")
             ELSE IF f.file = "none"
             THEN Respond(g, 400, "Image file is required")
             ELSE [g EXCEPT !.pc = "upload"]]
    /\ UNCHANGED <<db, store, overlap>>

\* the upload_stream promise; once it resolves the document is built and the
\* statement 'ns' after it throws a ReferenceError, which the catch answers
\* with 500 before submission.save() is reached
PUploadV2Store(r) ==
    LET q == req[r] IN
    /\ q.pc = "upload" /\ q.op = "p_upload_v2"
    /\ \/ /\ Len(store) < StoreBound
          /\ store' = Uploaded("oralvis/submissions", q.form.file)
          /\ req' = [req EXCEPT ![r] =
                Respond(Failed([q EXCEPT !.url = Len(store')], "reference"),
                        500, "ns is not defined")]
       \/ /\ req' = [req EXCEPT ![r] = Respond(Failed(q, "upload"), 500, "upload error")]
          /\ UNCHANGED store
    /\ UNCHANGED <<db, overlap>>

\* POST /generate-report/:id, upload_stream variant, up to doc.pipe(...)
PReportStream(r) ==
    LET q == Handled(req[r], "p_report_stream") IN
    /\ Routed(r, "p_report_stream")
    /\ \E id \in 1..MaxSubs :
          LET g == [q EXCEPT !.id = id]
              submission == FindOne(id, q.user) IN
          req' = [req EXCEPT ![r] =
             IF submission = NoDoc
             THEN Respond(g, 404, "Submission not found")
             ELSE [g EXCEPT !.doc = submission, !.pc = "upload"]]
    /\ UNCHANGED <<db, store, overlap>>

\* upload_stream and its callback: an upload error is answered with 500
PReportStreamStore(r) ==
    LET q == req[r] IN
    /\ q.pc = "upload" /\ q.op = "p_report_stream"
    /\ \/ /\ Len(store) < StoreBound
          /\ store' = Uploaded("oralvis/reports", "pdf")
          /\ req' = [req EXCEPT ![r] = [q EXCEPT !.url = Len(store'), !.pc = "save"]]
       \/ /\ req' = [req EXCEPT ![r] =
                Respond(Failed(q, "upload"), 500, "Failed to upload PDF")]
          /\ UNCHANGED store
    /\ UNCHANGED <<db, overlap>>

\* the async upload callback: a rejected save is caught by nobody
PReportStreamSave(r) ==
    LET q == req[r]
        cur == ReportAssign(q.doc, q.url) IN
    /\ q.pc = "save" /\ q.op = "p_report_stream"
    /\ \/ /\ db' = SaveModified(q.doc, cur)
          /\ req' = [req EXCEPT ![r] =
                Respond(q, 200, "Report generated successfully")]
       \/ /\ req' = [req EXCEPT ![r] = [Failed(q, "save") EXCEPT !.pc = "hung"]]
          /\ UNCHANGED db
    /\ UNCHANGED <<store, overlap>>

\* ------------------------------------------------------------ admin router
\* GET /submissions
AList(r) ==
    LET q == Handled(req[r], "a_list") IN
    /\ Routed(r, "a_list")
    /\ req' = [req EXCEPT ![r] =
          Respond([q EXCEPT !.out = FindSorted(Len(db), Patients)], 200, "")]
    /\ UNCHANGED <<db, store, overlap>>

\* GET /submissions/:id
AGet(r) ==
    LET q == Handled(req[r], "a_get") IN
    /\ Routed(r, "a_get")
    /\ \E id \in 1..MaxSubs :
          LET g == [q EXCEPT !.id = id]
              submission == AdminFind(id, q.user) IN
          req' = [req EXCEPT ![r] =
             IF submission = NoDoc
             THEN Respond(g, 404, "Submission not found")
             ELSE Respond([g EXCEPT !.doc = submission, !.out = <<submission>>], 200, "")]
    /\ UNCHANGED <<db, store, overlap>>

\* POST /submissions/:id/annotate
AAnnotate(r) ==
    LET q == Handled(req[r], "a_annotate") IN
    /\ Routed(r, "a_annotate")
    /\ \E id \in 1..MaxSubs, json \in Jsons, img \in Images :
          LET g == [q EXCEPT !.id = id, !.json = json, !.img = img]
              submission == AdminFind(id, q.user) IN
          req' = [req EXCEPT ![r] =
             IF ~NotEmpty(json) \/ ~NotEmpty(img)
             THEN Respond(g, 400, "errors")
             ELSE IF submission = NoDoc
             THEN Respond(g, 404, "Submission not found")
             ELSE [g EXCEPT !.doc = submission, !.pc = "upload"]]
    /\ UNCHANGED <<db, store, overlap>>

AAnnotateStore(r) ==
    LET q == req[r] IN
    /\ q.pc = "upload" /\ q.op = "a_annotate"
    /\ \/ /\ Len(store) < StoreBound
          /\ store' = Uploaded("oralvis/annotated", q.img)
          /\ req' = [req EXCEPT ![r] = [q EXCEPT !.url = Len(store'), !.pc = "save"]]
       \/ /\ req' = [req EXCEPT ![r] = Respond(Failed(q, "upload"), 500, "Server error")]
          /\ UNCHANGED store
    /\ UNCHANGED <<db, overlap>>

\* faulty variant of AnnotateAssign: the annotation payload is not stored
AnnotateAssignImageOnly(doc, json, url) ==
    [doc EXCEPT !.annotatedImageUrl = url, !.status = "annotated"]

\* submission.annotationJson = ...; .annotatedImageUrl = ...; .status = 'annotated'
AnnotateAssign(doc, json, url) ==
    [doc EXCEPT !.annotationJson = json, !.annotatedImageUrl = url, !.status = "annotated"]

AAnnotateSave(r) ==
    LET q == req[r]
        cur == AnnotateAssign(q.doc, q.json, q.url) IN
    /\ q.pc = "save" /\ q.op = "a_annotate"
    /\ \/ /\ db' = SaveModified(q.doc, cur)
          /\ req' = [req EXCEPT ![r] =
                Respond([q EXCEPT !.out = <<cur>>], 200, "Annotation saved successfully")]
       \/ /\ req' = [req EXCEPT ![r] = Respond(Failed(q, "save"), 500, "Server error")]
          /\ UNCHANGED db
    /\ UNCHANGED <<store, overlap>>

\* faulty variant of PdfReady: no guard
PdfReadyAlways(submission) == TRUE

\* generate-pdf's guard: if (!submission.annotatedImageUrl) return 400
PdfReady(submission) == submission.annotatedImageUrl # NoUrl

\* POST /submissions/:id/generate-pdf up to the image fetch
APdf(r) ==
    LET q == Handled(req[r], "a_pdf") IN
    /\ Routed(r, "a_pdf")
    /\ \E id \in 1..MaxSubs :
          LET g == [q EXCEPT !.id = id]
              submission == AdminFind(id, q.user) IN
          req' = [req EXCEPT ![r] =
             IF submission = NoDoc
             THEN Respond(g, 404, "Submission not found")
             ELSE IF ~PdfReady(submission)
             THEN Respond([g EXCEPT !.doc = submission], 400,
                          "Annotated image is required to generate PDF")
             ELSE [g EXCEPT !.doc = submission, !.pc = "fetch"]]
    /\ UNCHANGED <<db, store, overlap>>

\* axios.get(annotatedImageUrl), doc.image(...), doc.end()
APdfFetch(r) ==
    LET q == req[r] IN
    /\ q.pc = "fetch" /\ q.op = "a_pdf"
    /\ \/ req' = [req EXCEPT ![r] = [q EXCEPT !.pc = "upload"]]
       \/ req' = [req EXCEPT ![r] = Respond(Failed(q, "fetch"), 500, "Server error")]
    /\ UNCHANGED <<db, store, overlap>>

\* faulty variant of PdfUploadFailed: the error is not looked at
PdfUploadFailedFallThrough(q) == Respond(q, 200, "PDF generated successfully")

\* faulty variant of PdfUploadFailed: the error is answered in the callback and
\* again in the listener's catch
PdfUploadFailedTwice(q) ==
    Respond(Respond(q, 500, "Failed to upload PDF"), 500, "Server error")

\* the upload_stream callback's error branch
PdfUploadFailed(q) == Respond(q, 500, "Failed to upload PDF")

\* the 'end' listener: upload_stream and its callback
APdfStore(r) ==
    LET q == req[r] IN
    /\ q.pc = "upload" /\ q.op = "a_pdf"
    /\ \/ /\ Len(store) < StoreBound
          /\ store' = Uploaded("oralvis/reports", "pdf")
          /\ req' = [req EXCEPT ![r] = [q EXCEPT !.url = Len(store'), !.pc = "save"]]
       \/ /\ req' = [req EXCEPT ![r] = PdfUploadFailed(Failed(q, "upload"))]
          /\ UNCHANGED store
    /\ UNCHANGED <<db, overlap>>

\* the async upload callback: a rejected save is caught by nobody
APdfSave(r) ==
    LET q == req[r]
        cur == ReportAssign(q.doc, q.url) IN
    /\ q.pc = "save" /\ q.op = "a_pdf"
    /\ \/ /\ db' = SaveModified(q.doc, cur)
          /\ req' = [req EXCEPT ![r] =
                Respond(q, 200, "PDF generated successfully")]
       \/ /\ req' = [req EXCEPT ![r] = [Failed(q, "save") EXCEPT !.pc = "hung"]]
          /\ UNCHANGED db
    /\ UNCHANGED <<store, overlap>>

Next ==
    \E r \in Slots :
        \/ Begin(r)
        \/ Close(r)
        \/ AuthenticateToken(r) \/ AuthenticateToken2(r)
        \/ AuthorizeRoles(r)
        \/ PUpload(r) \/ PUploadStore(r) \/ PUploadSave(r)
        \/ PList(r) \/ PGet(r)
        \/ PSaveAnnotated(r) \/ PSaveAnnotatedStore(r) \/ PSaveAnnotatedSave(r)
        \/ PReport(r) \/ PReportStore(r) \/ PReportSave(r)
        \/ PUploadV2(r) \/ PUploadV2Store(r)
        \/ PReportStream(r) \/ PReportStreamStore(r) \/ PReportStreamSave(r)
        \/ AList(r) \/ AGet(r)
        \/ AAnnotate(r) \/ AAnnotateStore(r) \/ AAnnotateSave(r)
        \/ APdf(r) \/ APdfFetch(r) \/ APdfStore(r) \/ APdfSave(r)

Spec == Init /\ [][Next]_vars

\* ------------------------------------------------------ overlapping requests
\* two requests in flight at once, one per slot, on a submission p1 has
\* uploaded, each from its owner or the admin and already past
\* authenticateToken and authorizeRoles, which touch neither store
Writers == {"tok_p1", "tok_a1"}

\* the record store and the artifact store the two requests find: the
\* submission as uploaded, as the admin annotated it, or as its owner had a
\* report generated for it
UploadedJane == NewSubmission(1, "p1", FormJane, 1)
ImageJane == [folder |-> "oralvis/submissions", payload |-> FormJane.file]
Found ==
    {[db |-> <<UploadedJane>>, store |-> <<ImageJane>>],
     [db |-> <<AnnotateAssign(UploadedJane, "boxes", 2)>>,
      store |-> <<ImageJane, [folder |-> "oralvis/annotated", payload |-> "imgA"]>>],
     [db |-> <<ReportAssign(UploadedJane, 2)>>,
      store |-> <<ImageJane, [folder |-> "oralvis/reports", payload |-> "pdf"]>>]}

InitOverlap ==
    /\ \E found \in Found : db = found.db /\ store = found.store
    /\ req = [r \in Slots |-> NoReq]
    /\ overlap = TRUE

\* a request with a writer's cookie comes through both middlewares
BeginAuthorized(r) ==
    /\ overlap
    /\ req[r].pc = "idle"
    /\ \E router \in Routers, c \in Writers :
          LET cr == [cookie |-> c, header |-> NoHeader]
              token == ExtractToken(cr.cookie, cr.header)
              arrived == [NoReq EXCEPT !.pc = "auth", !.router = router]
              passed == RoleGate(Authenticate(Presented(arrived, cr, token), token)) IN
          /\ passed.pc = "handler"
          /\ req' = [req EXCEPT ![r] = Admitted(passed)]
    /\ UNCHANGED <<db, store, overlap>>

NextOverlap ==
    \E r \in Slots :
        \/ BeginAuthorized(r)
        \/ PSaveAnnotated(r) \/ PSaveAnnotatedStore(r) \/ PSaveAnnotatedSave(r)
        \/ PReport(r) \/ PReportStore(r) \/ PReportSave(r)
        \/ AAnnotate(r) \/ AAnnotateStore(r) \/ AAnnotateSave(r)
        \/ APdf(r) \/ APdfFetch(r) \/ APdfStore(r) \/ APdfSave(r)

SpecOverlap == InitOverlap /\ [][NextOverlap]_vars

\* ==================================================================
\* Properties
\* ==================================================================
Rank(status) ==
    CASE status = "uploaded" -> 1
      [] status = "annotated" -> 2
      [] status = "reported" -> 3
      [] OTHER -> 0

Answered(q) == q.pc = "done" /\ Len(q.resp) = 1
Code(q) == q.resp[1].code
Succeeded(q) == Answered(q) /\ Code(q) \in {200, 201}
Owned(q) == Exists(q.id) /\ db[q.id].patient = q.user
PatientScoped == {"p_get", "p_save_annotated", "p_report", "p_report_stream"}
AdminScoped == {"a_get", "a_annotate", "a_pdf"}
ReportOps == {"p_report", "p_report_stream", "a_pdf"}

\* C1: every submission's status is one of uploaded, annotated, reported and
\* no step moves it backwards along uploaded -> annotated -> reported.
C1_StatusNeverRegresses ==
    [][\A i \in 1..Len(db) :
          /\ db[i].status \in Statuses
          /\ db'[i].status \in Statuses
          /\ Rank(db'[i].status) >= Rank(db[i].status)]_vars

\* C2: in every persisted state a submission's reportUrl is non-null exactly
\* when its status is reported.
C2_ReportUrlIffReported ==
    \A i \in 1..Len(db) : (db[i].reportUrl # NoUrl) <=> (db[i].status = "reported")

\* C3: a patient-facing get-by-id, save-annotated or generate-report on a
\* submission the requester does not own ends at once with 404 (400 when
\* save-annotated carries no image, which is checked before the lookup), loads
\* no document, uploads nothing and leaves the record store and the artifact
\* store as they were; a document a patient request holds is the requester's
\* own; the patient list holds exactly the requester's submissions.
C3_Isolation ==
    \A r \in Slots :
        LET q == req[r] IN
        /\ (q.op \in PatientScoped /\ q.id # 0 /\ ~Owned(q)) =>
              /\ Answered(q) /\ q.doc = NoDoc /\ q.url = NoUrl
              /\ IF q.op = "p_save_annotated" /\ q.img = ""
                 THEN Code(q) = 400
                 ELSE q.resp[1] = [code |-> 404, message |-> "Submission not found"]
        /\ (q.op \in PatientScoped /\ Succeeded(q)) => Owned(q)
        /\ (q.op \in PatientScoped /\ q.doc # NoDoc) =>
              q.doc.id = q.id /\ q.doc.patient = q.user
        /\ (q.op = "p_list" /\ Answered(q)) =>
              /\ \A i \in 1..Len(q.out) : q.out[i].patient = q.user
              /\ Len(q.out) = Cardinality({i \in 1..Len(db) : db[i].patient = q.user})

C3_Untouched ==
    \A r \in Slots :
        (/\ req'[r] # req[r]
         /\ req'[r].op \in PatientScoped
         /\ req'[r].id # 0
         /\ ~(Exists(req'[r].id) /\ db[req'[r].id].patient = req'[r].user))
        => (db' = db /\ store' = store)

C3_PatientOwnership == []C3_Isolation /\ [][C3_Untouched]_vars

C3_Witness ==
    \E r \in Slots :
        LET q == req[r] IN
        /\ q.op = "p_save_annotated" /\ q.img # "" /\ q.user \in Patients
        /\ Exists(q.id) /\ db[q.id].patient # q.user
        /\ Answered(q) /\ Code(q) = 404

\* C4: when the artifact store refuses the report of a generate-report or
\* generate-pdf request, the persisted submission is the one the request read
\* (status and reportUrl included) and the request gets no success response.
C4_FailedReportUploadLeavesSubmission ==
    \A r \in Slots :
        LET q == req[r] IN
        (q.op \in ReportOps /\ q.err = "upload") =>
            /\ db[q.id] = q.doc
            /\ q.url = NoUrl
            /\ q.pc \in {"done", "hung"}
            /\ \A i \in 1..Len(q.resp) : q.resp[i].code \notin {200, 201}

C4_Witness ==
    /\ \E r \in Slots :
          LET q == req[r] IN
          /\ q.op = "a_pdf" /\ q.err = "upload" /\ q.doc.status = "annotated"
          /\ Answered(q) /\ Code(q) = 500

\* C5: admin generate-pdf on a submission whose annotatedImageUrl is null is
\* answered 400 at once, with no upload and the submission as it was; a
\* generate-pdf request goes on, and succeeds, only with a non-null
\* annotatedImageUrl.
C5_PdfNeedsAnnotatedImage ==
    \A r \in Slots :
        LET q == req[r] IN
        (q.op = "a_pdf" /\ q.doc # NoDoc) =>
            /\ q.doc.annotatedImageUrl = NoUrl =>
                  /\ Answered(q) /\ Code(q) = 400
                  /\ q.url = NoUrl /\ q.err = ""
                  /\ db[q.id] = q.doc
            /\ (q.pc \in {"fetch", "upload", "save"} \/ Succeeded(q)) =>
                  /\ q.doc.annotatedImageUrl # NoUrl
                  /\ db[q.id].annotatedImageUrl # NoUrl

C5_Witness ==
    \E r \in Slots :
        LET q == req[r] IN
        /\ q.op = "a_pdf" /\ q.doc # NoDoc /\ q.doc.annotatedImageUrl = NoUrl
        /\ Answered(q) /\ Code(q) = 400 /\ db[q.id].status = "uploaded"

\* C6: a request with neither a cookie token nor a Bearer authorization header
\* is answered 401 by authenticateToken (auth.js 4-37) itself: nothing runs
\* after it, no identity is attached, and the record store and the artifact
\* store are as they were; no handler ever runs without an identity.
C6_Step ==
    \A r \in Slots :
        (/\ AuthenticateToken(r)
         /\ req'[r] # req[r]
         /\ ExtractToken(req'[r].cookie, req'[r].header) = NoToken)
        => /\ req'[r].pc = "done"
           /\ req'[r].resp = <<[code |-> 401, message |-> "Access denied. No token provided."]>>
           /\ req'[r].user = NoUser
           /\ db' = db /\ store' = store

C6_NoHandler ==
    \A r \in Slots :
        LET q == req[r] IN
        q.user = NoUser =>
            /\ q.pc \in {"idle", "auth", "done"}
            /\ q.op = "none" /\ q.id = 0 /\ q.doc = NoDoc /\ q.url = NoUrl /\ q.form = NoForm

C7_Step ==
    \A r \in Slots :
        (req[r].pc = "role" /\ req'[r] # req[r]) =>
            LET q == req[r] IN
            /\ db' = db /\ store' = store
            /\ IF q.user = NoUser
               THEN req'[r] = Respond(q, 401, "Authentication required.")
               ELSE IF Role(q.user) \notin RouterRoles(q.router)
               THEN req'[r] = Respond(q, 403, "Access denied. Insufficient permissions.")
               ELSE req'[r] = Admitted([q EXCEPT !.pc = "handler"])

C7_Gate ==
    \A r \in Slots :
        LET q == req[r] IN
        /\ q.pc = "role" =>
              LET anon == RoleGate([q EXCEPT !.user = NoUser]) IN
              anon.pc = "done" /\ anon.resp[1].code = 401
        /\ (\/ q.pc \in {"handler", "fetch", "upload", "save", "hung"}
            \/ (Answered(q) /\ Code(q) \notin {401, 403})) =>
              q.user \in Users /\ Role(q.user) \in RouterRoles(q.router)
        /\ q.op # "none" =>
              /\ q.op \in RouterOps(q.router)
              /\ q.user \in Users /\ Role(q.user) \in RouteRoles(q.op)

C7_RoleGate == []C7_Gate /\ [][C7_Step]_vars

C7_Witness ==
    \E r \in Slots :
        LET q == req[r] IN
        /\ q.router = "admin" /\ q.user \in Patients /\ q.op = "none"
        /\ Answered(q) /\ Code(q) = 403
        /\ Len(db) > 0

\* C8: a successful patient save-annotated leaves annotatedImageUrl equal to
\* the URL the artifact store returned for this request's payload and status
\* annotated, also when an earlier save-annotated with another payload had
\* already set both.
C8_SecondSaveAnnotatedWins ==
    \A r \in Slots :
        LET q == req[r] IN
        (q.op = "p_save_annotated" /\ Succeeded(q)) =>
            /\ q.url # NoUrl
            /\ store[q.url] = [folder |-> "oralvis/annotated", payload |-> q.img]
            /\ db[q.id].annotatedImageUrl = q.url
            /\ db[q.id].status = "annotated"

C8_Witness ==
    \E r \in Slots :
        LET q == req[r] IN
        /\ q.op = "p_save_annotated" /\ Succeeded(q)
        /\ q.doc.status = "annotated" /\ q.doc.annotationJson = NoJson
        /\ q.doc.annotatedImageUrl # NoUrl
        /\ store[q.doc.annotatedImageUrl].payload # q.img
        /\ db[q.id].annotatedImageUrl # q.doc.annotatedImageUrl

\* C9: an admin request is never answered 403, and on the id of an existing
\* submission it is never answered 404 and works on that submission, whoever
\* owns it; the admin list holds every submission.
C9_AdminUnscoped ==
    \A r \in Slots :
        LET q == req[r] IN
        (q.op \in AdminOps /\ q.user \in Admins) =>
            /\ Answered(q) => Code(q) # 403
            /\ (q.op \in AdminScoped /\ q.id # 0 /\ Exists(q.id)) =>
                  /\ Answered(q) => Code(q) # 404
                  /\ (q.op = "a_annotate" /\ (q.json = "" \/ q.img = ""))
                     \/ (q.doc.id = q.id /\ q.doc.patient = db[q.id].patient)
            /\ (q.op = "a_list" /\ Answered(q)) =>
                  /\ Code(q) = 200
                  /\ Len(q.out) = Len(db)

C9_Witness ==
    \E r \in Slots :
        LET q == req[r] IN
        /\ q.op = "a_pdf" /\ q.user \in Admins /\ Succeeded(q)
        /\ db[q.id].patient = "p2" /\ db[q.id].status = "reported"

\* C10: once a submission's reportUrl is non-null no later step changes it.
C10_ReportUrlWrittenOnce ==
    [][\A i \in 1..Len(db) :
          db[i].reportUrl # NoUrl => db'[i].reportUrl = db[i].reportUrl]_vars

\* C11: after a patient's successful upload, get-by-id of the created
\* submission by the uploader finds a document with the name, patientId, email
\* and note of the upload, status uploaded, the uploader as owner, and reportUrl
\* and annotatedImageUrl unset; a successful get-by-id returns the persisted
\* document as it is.
C11_RoundTrip ==
    \A r \in Slots :
        LET q == req[r] IN
        /\ (q.op = "p_upload" /\ Succeeded(q)) =>
              LET got == FindOne(q.id, q.user) IN
              /\ got # NoDoc /\ got.id = q.id
              /\ got.name = q.form.name /\ got.patientId = q.form.patientId
              /\ got.email = q.form.email /\ got.note = q.form.note
              /\ got.status = "uploaded" /\ got.patient = q.user
              /\ got.reportUrl = NoUrl /\ got.annotatedImageUrl = NoUrl
              /\ got.annotationJson = NoJson
              /\ q.out = <<got>>
        /\ (q.op = "p_get" /\ Succeeded(q)) =>
              /\ q.out = <<db[q.id]>>
              /\ q.out[1].patient = q.user
              /\ \E f \in Forms :
                    /\ q.out[1].name = f.name /\ q.out[1].patientId = f.patientId
                    /\ q.out[1].email = f.email /\ q.out[1].note = f.note
                    /\ f.file = "image"

C11_Witness ==
    \E r \in Slots :
        LET q == req[r] IN
        /\ q.op = "p_get" /\ Succeeded(q) /\ q.user = "p2"
        /\ q.out[1].name = "Raj" /\ q.out[1].patientId = "P-200"
        /\ q.out[1].email = "raj@x.org" /\ q.out[1].note = "left molar"
        /\ q.out[1].status = "uploaded" /\ q.out[1].patient = "p2"
        /\ q.out[1].reportUrl = NoUrl /\ q.out[1].annotatedImageUrl = NoUrl

\* C12: authenticateToken (either variant) answers 401 when the token it read
\* fails verification, with one and the same response whether the token is
\* expired or wrongly signed, and 401 when the token's subject is no User; it
\* attaches the subject as identity and hands the request on only for a valid
\* token of an existing User; a request it answers carries no identity and
\* goes no further, and the two stores are as they were.
Unauthenticated(q) ==
    /\ q.pc = "done" /\ q.user = NoUser /\ q.op = "none"
    /\ Len(q.resp) = 1 /\ q.resp[1].code = 401

C12_Step ==
    \A r \in Slots :
        (req[r].pc = "auth" /\ req'[r] # req[r]) =>
            LET q == req'[r]
                t == q.token IN
            /\ db' = db /\ store' = store
            /\ t \in {q.cookie, q.header.token}
            /\ t \in (ExpiredTokens \cup {"tok_bad"}) =>
                  /\ Unauthenticated(q)
                  /\ q.resp[1].message \in {"Token is invalid or expired.", "Invalid token."}
            /\ (t \in SignedTokens /\ Subject[t] \notin Users) => Unauthenticated(q)
            /\ IF /\ t \in SignedTokens \ ExpiredTokens
                  /\ Subject[t] \in Users
               THEN q = [req[r] EXCEPT !.cookie = q.cookie, !.header = q.header,
                                       !.token = t, !.user = Subject[t], !.pc = "role"]
               ELSE Unauthenticated(q)

C12_Attached ==
    \A r \in Slots :
        LET q == req[r] IN
        /\ q.pc = "role" =>
              /\ q.token \in SignedTokens \ ExpiredTokens
              /\ q.user = Subject[q.token] /\ q.user \in Users
              /\ q.resp = << >>
        /\ (q.token # NoToken /\ q.pc = "done" /\ q.user = NoUser) =>
              /\ Unauthenticated(q)
              /\ q.token \in (ExpiredTokens \cup {"tok_bad"}) \/ Subject[q.token] \notin Users

C12_AuthenticateToken == []C12_Attached /\ [][C12_Step]_vars

C12_Witness ==
    \E r \in Slots :
        LET q == req[r] IN
        /\ q.token = "tok_old" /\ q.cookie = NoToken /\ q.header = Bearer("tok_old")
        /\ Unauthenticated(q) /\ q.resp[1].message = "Invalid token."
        /\ Len(db) > 0

\* C13: when a request carries a cookie token, authenticateToken (either
\* variant) reads that token and its outcome, 401 or the attached identity, is
\* the one the cookie token gives whatever the authorization header holds; the
\* header's token is read only when there is no cookie token.
C13_Step ==
    \A r \in Slots :
        (req[r].pc = "auth" /\ req'[r] # req[r]) =>
            LET q == req'[r] IN
            /\ q.cookie # NoToken =>
                  /\ q.token = q.cookie
                  /\ IF q.cookie \in SignedTokens \ ExpiredTokens /\ Subject[q.cookie] \in Users
                     THEN q.pc = "role" /\ q.user = Subject[q.cookie] /\ q.resp = << >>
                     ELSE Unauthenticated(q)
            /\ q.cookie = NoToken => q.token \in {NoToken, q.header.token}
            /\ (q.token # q.cookie) => q.cookie = NoToken

C13_CookieFirst == [][C13_Step]_vars

C13_Witness ==
    \E r \in Slots :
        LET q == req[r] IN
        /\ q.cookie = "tok_p1" /\ q.header = Bearer("tok_a1")
        /\ q.router = "admin" /\ q.user = "p1"
        /\ Answered(q) /\ Code(q) = 403

\* C14: a generate-report or generate-pdf request whose artifact upload or
\* record-store save has failed has been answered with 500: it is not left
\* without a response.
C14_FailedReportAnswered ==
    \A r \in Slots :
        LET q == req[r] IN
        (q.op \in ReportOps /\ q.err \in {"upload", "save"}) =>
            Answered(q) /\ Code(q) = 500

\* C15: a patient upload whose body lacks name, patientId, a valid email or
\* the image file is answered 400 with no artifact uploaded and no submission
\* created; an upload goes on to the artifact store, and succeeds, only with
\* all of them present.
UploadOps == {"p_upload", "p_upload_v2"}
Incomplete(f) ==
    f.name = "" \/ f.patientId = "" \/ f.email \notin ValidEmails \/ f.file = "none"

C15_IncompleteUploadRejected ==
    \A r \in Slots :
        LET q == req[r] IN
        (q.op \in UploadOps /\ Incomplete(q.form)) =>
            /\ Answered(q) /\ Code(q) = 400
            /\ q.url = NoUrl /\ q.err = "" /\ q.doc = NoDoc

\* C16: the answer to a patient's get-by-id, save-annotated or generate-report
\* on an id the patient does not own is fixed by the route and the request's
\* own payload alone: 404 "Submission not found" with nothing else in the
\* body (400 when save-annotated carries no image), the same whether the id
\* belongs to another patient or to no submission at all, and never 403.
NotOwnedAnswer(q) ==
    IF q.op = "p_save_annotated" /\ q.img = ""
    THEN <<[code |-> 400, message |-> "Annotated image data is required"]>>
    ELSE <<[code |-> 404, message |-> "Submission not found"]>>

C16_NoExistenceLeak ==
    \A r \in Slots :
        LET q == req[r] IN
        (q.op \in PatientScoped /\ q.id # 0 /\ ~Owned(q)) =>
            /\ q.pc = "done"
            /\ q.resp = NotOwnedAnswer(q)
            /\ q.out = << >> /\ q.doc = NoDoc /\ q.url = NoUrl /\ q.err = ""

C16_Witness ==
    \E r \in Slots :
        LET q == req[r] IN
        /\ q.op = "p_get" /\ q.user = "p2"
        /\ q.id = 1 /\ Len(db) = 1 /\ db[1].patient = "p1"
        /\ q.resp = <<[code |-> 404, message |-> "Submission not found"]>>
        /\ q.out = << >>

\* C17: in every mutating request the artifact upload comes first, the
\* record-store write second, the success response last: the artifact store
\* changes only in the request's upload step, before any write or response of
\* the request; the record store changes only in the save step of a request
\* whose upload has returned a URL; and a success response is sent only in the
\* step in which the write completes, after which the persisted submission
\* holds the uploaded artifact's URL.
MutatingOps == {"p_upload", "p_upload_v2", "p_save_annotated", "p_report",
                "p_report_stream", "a_annotate", "a_pdf"}

Folder(op) ==
    CASE op \in {"p_upload", "p_upload_v2"} -> "oralvis/submissions"
      [] op \in {"p_save_annotated", "a_annotate"} -> "oralvis/annotated"
      [] OTHER -> "oralvis/reports"

WrittenUrl(q) ==
    CASE q.op \in {"p_upload", "p_upload_v2"} -> db[q.id].imageUrl
      [] q.op \in {"p_save_annotated", "a_annotate"} -> db[q.id].annotatedImageUrl
      [] OTHER -> db[q.id].reportUrl

HasSuccess(q) == \E i \in 1..Len(q.resp) : q.resp[i].code \in {200, 201}

C17_Order ==
    \A r \in Slots :
        LET q == req[r] IN
        q.op \in MutatingOps =>
            /\ q.pc \in {"handler", "fetch", "upload"} =>
                  q.url = NoUrl /\ q.resp = << >>
            /\ q.pc = "save" =>
                  /\ q.url \in 1..Len(store) /\ store[q.url].folder = Folder(q.op)
                  /\ q.err = "" /\ q.resp = << >>
            /\ HasSuccess(q) =>
                  /\ q.url \in 1..Len(store) /\ store[q.url].folder = Folder(q.op)
                  /\ Exists(q.id) /\ WrittenUrl(q) = q.url
                  /\ q.resp[Len(q.resp)].code \in {200, 201} /\ q.pc = "done"

C17_Step ==
    \A r \in Slots :
        (req'[r] # req[r]) =>
            /\ store' # store =>
                  /\ req[r].pc = "upload" /\ req[r].url = NoUrl
                  /\ Len(store') = Len(store) + 1
                  /\ db' = db /\ ~HasSuccess(req'[r])
            /\ db' # db =>
                  /\ req[r].pc = "save" /\ req[r].url \in 1..Len(store)
                  /\ store' = store
            /\ (req'[r].op \in MutatingOps /\ HasSuccess(req'[r])) =>
                  /\ req[r].pc = "save" /\ db' # db

C17_UploadWriteRespond == []C17_Order /\ [][C17_Step]_vars

C17_Witness ==
    \E r \in Slots :
        LET q == req[r] IN
        /\ q.op = "p_report_stream" /\ Succeeded(q)
        /\ store[q.url] = [folder |-> "oralvis/reports", payload |-> "pdf"]
        /\ db[q.id].reportUrl = q.url /\ db[q.id].status = "reported"
        /\ q.doc.status = "annotated"

\* C18: patient generate-report (either variant) has no guard on
\* annotatedImageUrl: on the owner's submission in status uploaded with no
\* annotated image the request is never refused, and unless the artifact store
\* or the save fails it succeeds and leaves the submission reported with the
\* new reportUrl, annotatedImageUrl still null; admin generate-pdf on such a
\* submission is answered 400 and leaves it as it was.
PatientReportOps == {"p_report", "p_report_stream"}
Unannotated(doc) ==
    doc # NoDoc /\ doc.status = "uploaded" /\ doc.annotatedImageUrl = NoUrl

C18_ReportUngated ==
    \A r \in Slots :
        LET q == req[r] IN
        /\ (q.op \in PatientReportOps /\ q.id # 0 /\ Owned(q)) =>
              q.doc # NoDoc /\ q.doc.id = q.id
        /\ (q.op \in PatientReportOps /\ Unannotated(q.doc)) =>
              /\ q.pc \in {"upload", "save", "done", "hung"}
              /\ \A i \in 1..Len(q.resp) : q.resp[i].code \in {200, 500}
              /\ (q.pc \in {"done", "hung"} /\ q.err = "") =>
                    /\ Succeeded(q)
                    /\ db[q.id].status = "reported"
                    /\ db[q.id].reportUrl = q.url /\ q.url # NoUrl
                    /\ db[q.id].annotatedImageUrl = NoUrl
        /\ (q.op = "a_pdf" /\ Unannotated(q.doc)) =>
              /\ q.resp = <<[code |-> 400,
                             message |-> "Annotated image is required to generate PDF"]>>
              /\ q.pc = "done" /\ q.url = NoUrl
              /\ db[q.id] = q.doc

C18_Witness ==
    \E r \in Slots :
        LET q == req[r] IN
        /\ q.op = "p_report" /\ Unannotated(q.doc) /\ q.doc.patient = q.user
        /\ Succeeded(q)
        /\ db[q.id].status = "reported" /\ db[q.id].annotatedImageUrl = NoUrl

\* C20: a successful admin annotate leaves the submission annotated with the
\* request's annotation payload and the URL of its uploaded image, both set by
\* the one save and nothing else changed; without the payload or the image the
\* answer is 400, for an id that does not exist 404, in both cases with no
\* upload and the record store as it was.
C20_Annotate ==
    \A r \in Slots :
        LET q == req[r] IN
        q.op = "a_annotate" =>
            /\ (q.json = "" \/ q.img = "") =>
                  /\ q.resp = <<[code |-> 400, message |-> "errors"]>>
                  /\ q.pc = "done" /\ q.url = NoUrl /\ q.doc = NoDoc /\ q.err = ""
            /\ (q.json # "" /\ q.img # "" /\ ~Exists(q.id)) =>
                  /\ q.resp = <<[code |-> 404, message |-> "Submission not found"]>>
                  /\ q.pc = "done" /\ q.url = NoUrl /\ q.doc = NoDoc /\ q.err = ""
            /\ Succeeded(q) =>
                  /\ q.json # "" /\ q.img # ""
                  /\ store[q.url] = [folder |-> "oralvis/annotated", payload |-> q.img]
                  /\ db[q.id] = [q.doc EXCEPT !.annotationJson = q.json,
                                              !.annotatedImageUrl = q.url,
                                              !.status = "annotated"]

C20_Step ==
    \A r \in Slots :
        (/\ req'[r] # req[r]
         /\ req'[r].op = "a_annotate"
         /\ Answered(req'[r]) /\ Code(req'[r]) \in {400, 404})
        => (db' = db /\ store' = store /\ req[r].pc = "handler")

C20_AdminAnnotate == []C20_Annotate /\ [][C20_Step]_vars

C20_Witness ==
    \E r \in Slots :
        LET q == req[r] IN
        /\ q.op = "a_annotate" /\ Succeeded(q)
        /\ q.doc.status = "uploaded" /\ q.doc.annotatedImageUrl = NoUrl
        /\ db[q.id].status = "annotated" /\ db[q.id].annotationJson = "boxes"
        /\ db[q.id].annotatedImageUrl = q.url /\ q.url # NoUrl

\* C19 as stated: a save is never turned down because the persisted
\* submission has changed since the request read it, and after every completed
\* save the persisted status is the one the saving request assigned.
AssignedStatus(op) == IF op \in ReportOps THEN "reported" ELSE "annotated"
SaveCompleted(r) ==
    /\ req[r].pc = "save" /\ req'[r] # req[r] /\ req'[r].err = ""
    /\ Exists(req[r].id)

C19_LastSaveStatusPersists ==
    [][\A r \in Slots :
          SaveCompleted(r) =>
              /\ Succeeded(req'[r])
              /\ db'[req[r].id].status = AssignedStatus(req[r].op)]_vars

\* C19, amended: a save is never turned down because the persisted submission
\* has changed since the request read it; it writes the fields whose value the
\* request changed from what it read and leaves the others as persisted. So
\* after a completed save the persisted status is the one the saving request
\* assigned if that differs from the status it read, and is otherwise left as
\* the other request wrote it; the request's artifact URL is always written. A
\* save-annotated or annotate that read status uploaded or annotated before a
\* report was saved therefore puts a reported submission back (uploaded read:
\* to annotated; annotated read: status stays reported).
C19_Save ==
    \A r \in Slots :
        SaveCompleted(r) =>
            LET q == req[r]
                old == db[q.id]
                new == db'[q.id]
                assigned == AssignedStatus(q.op) IN
            /\ Succeeded(req'[r])
            /\ new.status = IF q.doc.status # assigned THEN assigned ELSE old.status
            /\ IF q.op \in ReportOps
               THEN /\ new.reportUrl = q.url
                    /\ new.annotatedImageUrl = old.annotatedImageUrl
                    /\ new.annotationJson = old.annotationJson
               ELSE /\ new.annotatedImageUrl = q.url
                    /\ new.reportUrl = old.reportUrl
                    /\ new.annotationJson =
                          IF q.op = "a_annotate" /\ q.json # q.doc.annotationJson
                          THEN q.json ELSE old.annotationJson
            /\ \A i \in 1..Len(db) : i # q.id => db'[i] = db[i]

C19_LastChangedWriteWins == [][C19_Save]_vars

C19_Witness ==
    \E r, o \in Slots :
        LET q == req[r]
            p == req[o] IN
        /\ r # o /\ q.id = p.id
        /\ q.op = "p_save_annotated" /\ Succeeded(q)
        /\ q.doc.status = "uploaded" /\ q.doc.reportUrl = NoUrl
        /\ p.op = "p_report" /\ Succeeded(p) /\ p.doc.status = "uploaded"
        /\ db[q.id].status = "annotated"
        /\ db[q.id].reportUrl = p.url /\ db[q.id].annotatedImageUrl = q.url

\* C21: no request repeats a call. Every step of a request takes it further
\* along idle, auth, role, handler, fetch, upload, save, ended, so it passes
\* the upload step and the save step at most once; the artifact store is
\* called only in the upload step, which adds at most one artifact, and the
\* record store is written only in the save step, which changes at most one
\* submission; the step in which a call fails ends the request, and an ended
\* request does nothing more until its connection closes.
PcRank(pc) ==
    CASE pc = "idle" -> 0
      [] pc = "auth" -> 1
      [] pc = "role" -> 2
      [] pc = "handler" -> 3
      [] pc = "fetch" -> 4
      [] pc = "upload" -> 5
      [] pc = "save" -> 6
      [] OTHER -> 7

Ended(q) == q.pc \in {"done", "hung"}

C21_Step ==
    \A r \in Slots :
        (req'[r] # req[r]) =>
            LET q == req[r]
                n == req'[r] IN
            /\ IF Ended(q)
               THEN n = NoReq /\ db' = db /\ store' = store
               ELSE PcRank(n.pc) > PcRank(q.pc)
            /\ IF q.pc = "upload"
               THEN /\ store' = store \/ (Len(store') = Len(store) + 1 /\ n.url = Len(store'))
                    /\ store' = store => (n.err = "upload" /\ Ended(n) /\ n.url = NoUrl)
               ELSE store' = store
            /\ IF q.pc = "save"
               THEN /\ Ended(n)
                    /\ db' = db => n.err = "save"
                    /\ \A i \in 1..Len(db) : i # n.id => db'[i] = db[i]
                    /\ Len(db') \in {Len(db), n.id}
               ELSE db' = db
            /\ (q.err = "" /\ n.err # "") => Ended(n)
            /\ q.err # "" => Ended(q)

C21_NoRetry == [][C21_Step]_vars

C21_Witness ==
    \E r \in Slots :
        LET q == req[r] IN
        /\ q.op = "p_save_annotated" /\ q.err = "save"
        /\ q.resp = <<[code |-> 500, message |-> "Server error"]>>
        /\ q.url = Len(store) /\ store[q.url].payload = q.img
        /\ db[q.id] = q.doc

\* C22: no step changes the owner, name, patientId, email, note or imageUrl of
\* a persisted submission, nor its id; a save of save-annotated changes at most
\* annotatedImageUrl and status, a save of admin annotate at most
\* annotationJson, annotatedImageUrl and status, a save of report generation
\* (patient or admin) at most reportUrl and status; an upload adds a
\* submission and leaves the others as they are; no submission is removed.
SameSnapshot(a, b) ==
    /\ a.id = b.id /\ a.patient = b.patient
    /\ a.name = b.name /\ a.patientId = b.patientId
    /\ a.email = b.email /\ a.note = b.note
    /\ a.imageUrl = b.imageUrl

C22_Step ==
    /\ Len(db') >= Len(db)
    /\ \A i \in 1..Len(db) : SameSnapshot(db[i], db'[i])
    /\ \A r \in Slots :
          (req'[r] # req[r] /\ db' # db) =>
              LET q == req[r] IN
              \A i \in 1..Len(db) :
                  LET a == db[i]
                      b == db'[i] IN
                  CASE q.op \in {"p_upload", "p_upload_v2"} -> b = a
                    [] q.op = "p_save_annotated" ->
                          b = [a EXCEPT !.annotatedImageUrl = b.annotatedImageUrl,
                                        !.status = b.status]
                    [] q.op = "a_annotate" ->
                          b = [a EXCEPT !.annotationJson = b.annotationJson,
                                        !.annotatedImageUrl = b.annotatedImageUrl,
                                        !.status = b.status]
                    [] q.op \in ReportOps ->
                          b = [a EXCEPT !.reportUrl = b.reportUrl, !.status = b.status]
                    [] OTHER -> FALSE

C22_Frame == [][C22_Step]_vars

C22_Witness ==
    \E r \in Slots :
        LET q == req[r] IN
        /\ q.op = "a_annotate" /\ Succeeded(q)
        /\ q.doc.reportUrl # NoUrl /\ q.doc.note = "left molar"
        /\ SameSnapshot(q.doc, db[q.id])
        /\ db[q.id].reportUrl = q.doc.reportUrl
        /\ db[q.id].annotatedImageUrl # q.doc.annotatedImageUrl

\* C23: a request is answered at most once: its responses never number more
\* than one, a step adds at most one response and only to a request that has
\* none and is not yet ended, a response once sent is never altered, and a
\* request left without response (a rejected call in the PDF 'end' listener or
\* the upload callback) is not answered later.
C23_AtMostOne ==
    \A r \in Slots :
        LET q == req[r] IN
        /\ Len(q.resp) <= 1
        /\ Len(q.resp) = 1 => q.pc = "done"
        /\ q.pc = "hung" => q.resp = << >>

C23_Step ==
    \A r \in Slots :
        (req'[r] # req[r] /\ req'[r].resp # req[r].resp) =>
            \/ /\ req[r].resp = << >> /\ ~Ended(req[r])
               /\ Len(req'[r].resp) = 1 /\ req'[r].pc = "done"
            \/ /\ Ended(req[r]) /\ req'[r] = NoReq

C23_OneResponse == []C23_AtMostOne /\ [][C23_Step]_vars

C23_Witness ==
    \E r \in Slots :
        LET q == req[r] IN
        /\ q.op = "a_pdf" /\ q.err = "fetch" /\ q.doc.status = "reported"
        /\ q.resp = <<[code |-> 500, message |-> "Server error"]>>
        /\ q.pc = "done" /\ q.url = NoUrl /\ db[q.id] = q.doc

\* C24: every persisted submission with status annotated has a non-null
\* annotatedImageUrl, and no step makes a non-null annotatedImageUrl null.
C24_AnnotatedHasImage ==
    \A i \in 1..Len(db) :
        db[i].status = "annotated" =>
            /\ db[i].annotatedImageUrl # NoUrl
            /\ db[i].annotatedImageUrl \in 1..Len(store)
            /\ store[db[i].annotatedImageUrl].folder = "oralvis/annotated"

C24_Step ==
    \A i \in 1..Len(db) :
        db[i].annotatedImageUrl # NoUrl =>
            /\ i \in 1..Len(db')
            /\ db'[i].annotatedImageUrl # NoUrl

C24_AnnotatedImageKept == []C24_AnnotatedHasImage /\ [][C24_Step]_vars

C24_Witness ==
    \E r \in Slots :
        LET q == req[r] IN
        /\ q.op = "a_annotate" /\ Succeeded(q)
        /\ q.doc.status = "annotated" /\ q.doc.annotationJson = NoJson
        /\ q.doc.annotatedImageUrl # NoUrl
        /\ db[q.id].status = "annotated"
        /\ db[q.id].annotatedImageUrl = q.url
        /\ q.url \notin {NoUrl, q.doc.annotatedImageUrl}

====
